---------------------------- MODULE Spec2Model ----------------------------
(***************************************************************************)
(* A model of sqlite_mcp_server.py: the four read-only tools list_tables,  *)
(* describe_table, get_schema and query over the SQLite store crm.db.      *)
(*                                                                         *)
(* A Python str is a sequence of one-character strings.  A tool call runs  *)
(* in steps, one per await of its coroutine, so that several calls         *)
(* interleave as they do on the asyncio event loop.  The driver (sqlite3   *)
(* behind aiosqlite) is modelled at the places where the code calls it.    *)
(***************************************************************************)
EXTENDS Naturals, Sequences, FiniteSets

\* ------------------------------------------------------------------ bounds

\* Number of calls of a run; any of them may be in flight at the same time.
NumCalls == 2

\* Longest query text of the guard specification, counted in fragments.
MaxFrags == 3

Procs == 1..NumCalls

\* --------------------------------------------------------------- characters

LowerLetters ==
    <<"a","b","c","d","e","f","g","h","i","j","k","l","m",
      "n","o","p","q","r","s","t","u","v","w","x","y","z">>

UpperLetters ==
    <<"A","B","C","D","E","F","G","H","I","J","K","L","M",
      "N","O","P","Q","R","S","T","U","V","W","X","Y","Z">>

Digits == <<"0","1","2","3","4","5","6","7","8","9">>

\* The characters of the model in code point order (the order of the
\* store's BINARY collation, which ORDER BY name uses).
Ascii ==
    <<"\n", " ", "'", "(", ")", "*", ";">> \o Digits \o UpperLetters
        \o <<"_">> \o LowerLetters

Range(s) == {s[i] : i \in 1..Len(s)}

Code(c) == CHOOSE i \in 1..Len(Ascii) : Ascii[i] = c

\* str.upper() on each character of the model.
UpperMap ==
    [c \in Range(Ascii) |->
        IF c \in Range(LowerLetters)
        THEN UpperLetters[CHOOSE i \in 1..26 : LowerLetters[i] = c]
        ELSE c]

UpperChar(c) == UpperMap[c]

\* str.upper()
upper(s) == [i \in 1..Len(s) |-> UpperChar(s[i])]

\* The characters str.strip() removes.
IsSpace(c) == c \in {" ", "\n"}

\* str.strip()
strip(s) ==
    IF \A i \in 1..Len(s) : IsSpace(s[i]) THEN <<>>
    ELSE LET a == CHOOSE i \in 1..Len(s) :
                     ~IsSpace(s[i]) /\ \A j \in 1..(i-1) : IsSpace(s[j])
             b == CHOOSE i \in 1..Len(s) :
                     ~IsSpace(s[i]) /\ \A j \in (i+1)..Len(s) : IsSpace(s[j])
         IN SubSeq(s, a, b)

\* str.startswith(prefix)
startswith(s, prefix) ==
    /\ Len(prefix) <= Len(s)
    /\ SubSeq(s, 1, Len(prefix)) = prefix

\* The characters the regular expression class \w matches.
WordChars ==
    Range(LowerLetters) \cup Range(UpperLetters) \cup Range(Digits) \cup {"_"}

IsWordChar(c) == c \in WordChars

\* The regular expression assertion \b between s[i-1] and s[i]: exactly one
\* of the two is a word character; outside the text counts as none.
WordBoundary(s, i) ==
    LET before == i > 1 /\ IsWordChar(s[i-1])
        after  == i <= Len(s) /\ IsWordChar(s[i])
    IN before # after

\* Mutation of re_search: the keyword is searched as a plain substring.
re_search_substring(keyword, text) ==
    \E i \in 1..(Len(text) - Len(keyword) + 1) :
        SubSeq(text, i, i + Len(keyword) - 1) = keyword

\* re.search(rf'\b{keyword}\b', text)
re_search(keyword, text) ==
    \E i \in 1..(Len(text) - Len(keyword) + 1) :
        /\ SubSeq(text, i, i + Len(keyword) - 1) = keyword
        /\ WordBoundary(text, i)
        /\ WordBoundary(text, i + Len(keyword))

\* ------------------------------------------------------------ the query guard

KW_SELECT == <<"S","E","L","E","C","T">>

KW_WITH == <<"W","I","T","H">>

forbidden_keywords ==
    << <<"I","N","S","E","R","T">>,
       <<"U","P","D","A","T","E">>,
       <<"D","E","L","E","T","E">>,
       <<"D","R","O","P">>,
       <<"C","R","E","A","T","E">>,
       <<"A","L","T","E","R">>,
       <<"T","R","U","N","C","A","T","E">>,
       <<"R","E","P","L","A","C","E">>,
       <<"A","T","T","A","C","H">>,
       <<"D","E","T","A","C","H">>,
       <<"V","A","C","U","U","M">>,
       <<"R","E","I","N","D","E","X">>,
       <<"P","R","A","G","M","A">> >>

\* Mutation of sql_upper: the copy is trimmed but not uppercased.
sql_upper_not_uppercased(sql) == strip(sql)

\* sql_upper = sql.strip().upper()
sql_upper(sql) == upper(strip(sql))

\* Mutation of starts_with_select_or_with: the words are looked for anywhere.
select_or_with_anywhere(text) ==
    re_search_substring(KW_SELECT, text) \/ re_search_substring(KW_WITH, text)

\* sql_upper.startswith("SELECT") or sql_upper.startswith("WITH")
starts_with_select_or_with(text) ==
    startswith(text, KW_SELECT) \/ startswith(text, KW_WITH)

\* Mutation of first_forbidden: the keyword scan is left out.
first_forbidden_none(text) == 0

\* The for loop over forbidden_keywords: the index of the first keyword of
\* the list that re.search finds, 0 when the loop ends without a match.
first_forbidden(text) ==
    IF \E k \in 1..Len(forbidden_keywords) : re_search(forbidden_keywords[k], text)
    THEN CHOOSE k \in 1..Len(forbidden_keywords) :
            /\ re_search(forbidden_keywords[k], text)
            /\ \A j \in 1..(k-1) : ~re_search(forbidden_keywords[j], text)
    ELSE 0

\* No document.
NoDoc == [none |-> TRUE]

\* An error document: json.dumps({"error": <text with arg formatted in>}).
ErrorDoc(text, a) == [error |-> [text |-> text, arg |-> a]]

NotSelectDoc ==
    ErrorDoc("Only SELECT queries are allowed. Query must start with SELECT or WITH.", <<>>)

ForbiddenDoc(keyword) ==
    ErrorDoc("Query contains forbidden keyword: {keyword}. Only read-only queries are allowed.",
             keyword)

\* The validation at the head of query(): the document it returns early, or
\* allow when the call goes on to get_connection().
QueryGuard(sql) ==
    LET text == sql_upper(sql)
        k    == first_forbidden(text)
    IN IF ~starts_with_select_or_with(text)
       THEN [allow |-> FALSE, doc |-> NotSelectDoc]
       ELSE IF k # 0
       THEN [allow |-> FALSE, doc |-> ForbiddenDoc(forbidden_keywords[k])]
       ELSE [allow |-> TRUE, doc |-> NoDoc]

\* Mutation of ExecutedText: the uppercased copy is executed.
ExecutedTextUpper(sql) == sql_upper(sql)

\* conn.execute(sql): the text query() hands to the driver.
ExecutedText(sql) == sql

\* ------------------------------------------------------------------ the store

N_users == <<"u","s","e","r","s">>

N_companies == <<"c","o","m","p","a","n","i","e","s">>

N_my_table == <<"m","y"," ","t","a","b","l","e">>

N_sqlitelog == <<"s","q","l","i","t","e","l","o","g">>

N_sqlite_sequence == <<"s","q","l","i","t","e","_","s","e","q","u","e","n","c","e">>

N_nosuch == <<"n","o","s","u","c","h">>

N_autoindex == <<"s","q","l","i","t","e","_","a","u","t","o","i","n","d","e","x","_","u","s","e","r","s","_","1">>

N_idx_created == <<"i","d","x","_","c","r","e","a","t","e","d">>

Column(name, type, notnull, pk) ==
    [name |-> name, type |-> type, notnull |-> notnull, dflt_value |-> "NULL", pk |-> pk]

Index(name, unique, columns) == [name |-> name, unique |-> unique, columns |-> columns]

\* What the catalog holds of a table: its sqlite_master row (name, sql) and
\* what the PRAGMAs report of it.
Table(name, sql, columns, foreign_keys, indexes) ==
    [name |-> name, sql |-> sql, columns |-> columns,
     foreign_keys |-> foreign_keys, indexes |-> indexes]

\* The schema of each table a store of the model may hold.  Every name is
\* one the store accepts in CREATE TABLE; "my table", sqlitelog and the
\* index idx_created are no names of the seeded database, which the server
\* does not require: it reads whatever file DB_PATH names.
Schema(name) ==
    CASE name = N_users ->
           Table(name, "CREATE TABLE users (...)",
                 << Column("id", "INTEGER", 0, 1), Column("email", "TEXT", 1, 0),
                    Column("created_at", "TIMESTAMP", 0, 0) >>,
                 <<>>,
                 << Index(N_idx_created, 0, <<"created_at">>),
                    Index(N_autoindex, 1, <<"email">>) >>)
      [] name = N_companies ->
           Table(name, "CREATE TABLE companies (...)",
                 << Column("id", "INTEGER", 0, 1), Column("owner_id", "INTEGER", 0, 0) >>,
                 << [from |-> "owner_id", table |-> "users", to |-> "id"] >>,
                 <<>>)
      [] name = N_sqlite_sequence ->
           Table(name, "CREATE TABLE sqlite_sequence(name,seq)",
                 << Column("name", "", 0, 0), Column("seq", "", 0, 0) >>, <<>>, <<>>)
      [] name = N_my_table ->
           Table(name, "CREATE TABLE \"my table\" (a)",
                 << Column("a", "", 0, 0) >>, <<>>, <<>>)
      [] OTHER ->
           Table(name, "CREATE TABLE sqlitelog (a)",
                 << Column("a", "", 0, 0) >>, <<>>, <<>>)

\* A store is the function from the names of its tables to their rows.
\* The stores a run may start from: an empty one, the seeded shape (tables
\* with plain names, AUTOINCREMENT's sqlite_sequence beside them), and one
\* holding a table whose name is no plain identifier and a user table whose
\* name begins with the letters sqlite.
Stores ==
    << [n \in {} |-> <<>>],
       [n \in {N_users, N_companies, N_sqlite_sequence} |-> <<1, 2>>],
       [n \in {N_users, N_my_table, N_sqlitelog, N_sqlite_sequence} |-> <<1>>] >>

\* The names describe_table is called with.
TableNames == {N_users, N_my_table, N_sqlite_sequence, N_nosuch}

\* --------------------------------------------------------------- the driver

\* Lexicographic order of two strings by code point.
RECURSIVE StrLess(_, _)
StrLess(a, b) ==
    IF a = <<>> THEN b # <<>>
    ELSE IF b = <<>> THEN FALSE
    ELSE IF a[1] # b[1] THEN Code(a[1]) < Code(b[1])
    ELSE StrLess(Tail(a), Tail(b))

\* ORDER BY name: the names of a set in ascending order.
RECURSIVE OrderByName(_)
OrderByName(S) ==
    IF S = {} THEN <<>>
    ELSE LET m == CHOOSE x \in S : \A y \in S \ {x} : StrLess(x, y)
         IN <<m>> \o OrderByName(S \ {m})

\* name NOT LIKE 'sqlite_%': LIKE compares letters without case, _ matches
\* any one character and % any rest.
not_like_sqlite(name) ==
    ~ (/\ Len(name) >= 7
       /\ upper(SubSeq(name, 1, 6)) = <<"S","Q","L","I","T","E">>)

\* The names of the rows of sqlite_master with type = 'table' (the store's
\* indexes are its other rows).
master_tables(st) == DOMAIN st

\* SELECT name FROM sqlite_master WHERE type='table'
\*   AND name NOT LIKE 'sqlite_%' ORDER BY name
select_table_names(st) ==
    OrderByName({n \in master_tables(st) : not_like_sqlite(n)})

\* Mutation of select_table_exists: the row is not looked at.
select_table_exists_unchecked(st, table_name) == TRUE

\* SELECT name FROM sqlite_master WHERE type='table' AND name = ?
\* with table_name bound as a parameter: whether fetchone() finds a row.
select_table_exists(st, table_name) == table_name \in master_tables(st)

\* Whether a text put unquoted between the parentheses of a PRAGMA parses
\* as its one argument: a single identifier token.
IsBareName(text) ==
    /\ text # <<>>
    /\ \A i \in 1..Len(text) : IsWordChar(text[i])
    /\ text[1] \notin Range(Digits)

\* The tables a PRAGMA argument names (names match without case).
TablesNamed(st, text) == {Schema(n) : n \in {m \in DOMAIN st : upper(m) = upper(text)}}

\* The indexes a PRAGMA argument names.
IndexesNamed(st, text) ==
    UNION {{Schema(n).indexes[i] :
               i \in {j \in 1..Len(Schema(n).indexes) :
                        upper(Schema(n).indexes[j].name) = upper(text)}} : n \in DOMAIN st}

\* conn.execute(f"PRAGMA <pragma>({text})"): a syntax error unless the
\* interpolated text is one identifier, else the rows of the object it names.
Pragma(st, pragma, text) ==
    IF ~IsBareName(text)
    THEN [ok |-> FALSE, rows |-> <<>>]
    ELSE IF pragma = "index_info"
    THEN [ok |-> TRUE,
          rows |-> IF IndexesNamed(st, text) = {} THEN <<>>
                   ELSE (CHOOSE x \in IndexesNamed(st, text) : TRUE).columns]
    ELSE IF TablesNamed(st, text) = {}
    THEN [ok |-> TRUE, rows |-> <<>>]
    ELSE LET t == CHOOSE x \in TablesNamed(st, text) : TRUE
         IN [ok |-> TRUE,
             rows |-> CASE pragma = "table_info" -> t.columns
                        [] pragma = "foreign_key_list" -> t.foreign_keys
                        [] OTHER -> t.indexes]

\* The tokens of a statement that are words: its maximal runs of
\* identifier characters, in order.
RECURSIVE Words(_)
Words(text) ==
    IF text = <<>> THEN <<>>
    ELSE IF ~IsWordChar(text[1]) THEN Words(Tail(text))
    ELSE LET n == CHOOSE k \in 1..Len(text) :
                     /\ \A j \in 1..k : IsWordChar(text[j])
                     /\ (k = Len(text) \/ ~IsWordChar(text[k+1]))
         IN <<SubSeq(text, 1, n)>> \o Words(SubSeq(text, n + 1, Len(text)))

\* Text follows the statement's semicolon: sqlite3 refuses it before it runs
\* anything ("You can only execute one statement at a time.").
SeveralStatements(text) ==
    \E i \in 1..Len(text) :
        text[i] = ";" /\ \E j \in (i+1)..Len(text) : ~IsSpace(text[j])

\* The statements that write when the store runs them, by their first word.
WriteVerbs ==
    { <<"I","N","S","E","R","T">>, <<"U","P","D","A","T","E">>,
      <<"D","E","L","E","T","E">>, <<"D","R","O","P">>,
      <<"C","R","E","A","T","E">>, <<"A","L","T","E","R">>,
      <<"R","E","P","L","A","C","E">>, <<"V","A","C","U","U","M">>,
      <<"R","E","I","N","D","E","X">>, <<"A","N","A","L","Y","Z","E">>,
      <<"P","R","A","G","M","A">> }

\* The writes a WITH clause may be followed by.
CteWriteVerbs ==
    { <<"I","N","S","E","R","T">>, <<"U","P","D","A","T","E">>,
      <<"D","E","L","E","T","E">>, <<"R","E","P","L","A","C","E">> }

\* Whether the store parses the text as one statement it can run.
IsStatement(text) ==
    LET w == Words(text)
    IN /\ ~SeveralStatements(text)
       /\ Len(w) >= 2
       /\ upper(w[1]) \in WriteVerbs \cup {KW_SELECT, KW_WITH}
       /\ (IsWordChar(text[1]) \/ IsSpace(text[1]))

\* Whether running the statement writes to the store.
IsWrite(text) ==
    LET w == Words(text)
    IN /\ IsStatement(text)
       /\ \/ upper(w[1]) \in WriteVerbs
          \/ /\ upper(w[1]) = KW_WITH
             /\ \E i \in 2..Len(w) : upper(w[i]) \in CteWriteVerbs

\* The tables a statement names.
Named(st, text) ==
    LET w == {upper(x) : x \in Range(Words(text))}
    IN {n \in DOMAIN st : upper(n) \in w}

\* The store after a write: DROP removes the tables the statement names,
\* any other write empties them.
Written(st, text) ==
    IF upper(Words(text)[1]) = <<"D","R","O","P">>
    THEN [n \in DOMAIN st \ Named(st, text) |-> st[n]]
    ELSE [n \in DOMAIN st |-> IF n \in Named(st, text) THEN <<>> ELSE st[n]]

KW_FROM == <<"F","R","O","M">>

\* The statement reads FROM a name that is no table of the store.
NoSuchTable(st, text) ==
    LET w == Words(text)
        names == {upper(n) : n \in DOMAIN st}
    IN \E i \in 1..(Len(w) - 1) :
          /\ upper(w[i]) = KW_FROM
          /\ upper(w[i+1]) \notin names

\* conn.execute(sql) with cursor.description and cursor.fetchall(): whether
\* the driver raises, the rows it returns and the store it leaves.
Execute(st, text) ==
    IF ~IsStatement(text) \/ NoSuchTable(st, text)
    THEN [ok |-> FALSE, columns |-> <<>>, rows |-> <<>>, store |-> st]
    ELSE IF IsWrite(text)
    THEN [ok |-> TRUE, columns |-> <<>>, rows |-> <<>>, store |-> Written(st, text)]
    ELSE LET named == Named(st, text)
         IN [ok |-> TRUE, columns |-> <<"c1">>,
             rows |-> IF named = {} THEN <<1>> ELSE st[CHOOSE n \in named : TRUE],
             store |-> st]

\* ------------------------------------------------------------- the program

VARIABLES
    dbFile,     \* crm.db at DB_PATH: "ok", "missing" or "corrupt"
    store,      \* the tables of crm.db and their rows
    store0,     \* the store before the first call
    pc,         \* pc[p]: where call p stands
    op,         \* op[p]: the tool call p runs
    arg,        \* arg[p]: its argument (table_name or sql)
    conn,       \* conn[p]: the connections call p holds open
    opened,     \* opened[p]: the connections call p has opened
    work,       \* work[p]: describe_table's columns, foreign_keys, indexes
    pending,    \* pending[p]: what the call returns or raises after finally
    ret,        \* ret[p]: what the call returned or raised
    log         \* log[p]: the statements call p handed to the driver

vars == <<dbFile, store, store0, pc, op, arg, conn, opened, work, pending, ret, log>>

Ops == {"list_tables", "describe_table", "get_schema", "query"}

Q_drop == <<"D","R","O","P"," ","T","A","B","L","E"," ","u","s","e","r","s">>

Q_cte_delete ==
    <<"W","I","T","H"," ","d"," ","A","S"," ","(","S","E","L","E","C","T"," ","1",")"," ",
      "D","E","L","E","T","E"," ","F","R","O","M"," ","u","s","e","r","s">>

Q_created_at ==
    <<" "," ","s","e","l","e","c","t"," ","c","r","e","a","t","e","d","_","a","t"," ",
      "f","r","o","m"," ","u","s","e","r","s">>

Q_incomplete == <<"S","E","L","E","C","T">>

Q_two ==
    <<"S","E","L","E","C","T"," ","1",";"," ","A","N","A","L","Y","Z","E">>

\* The query texts of the concurrent specification.
Queries == {Q_drop, Q_cte_delete, Q_created_at, Q_incomplete, Q_two}

\* The arguments a tool is called with.
Args(o) ==
    CASE o = "describe_table" -> TableNames
      [] o = "query" -> Queries
      [] OTHER -> {<<>>}

\* QueryGuard of the texts of Queries, evaluated once for all calls.
GuardOfQueries == [sql \in Queries |-> QueryGuard(sql)]

Validate(sql) == IF sql \in Queries THEN GuardOfQueries[sql] ELSE QueryGuard(sql)

NoOutcome == [how |-> "none", doc |-> NoDoc, exc |-> ""]

Returned(doc) == [how |-> "returned", doc |-> doc, exc |-> ""]

Raised(exc) == [how |-> "raised", doc |-> NoDoc, exc |-> exc]

NoWork == [columns |-> <<>>, foreign_keys |-> <<>>, indexes |-> <<>>, todo |-> <<>>]

Statement(stmt, text) == [stmt |-> stmt, text |-> text]

\* os.path.exists(DB_PATH)
path_exists == dbFile # "missing"

\* The file at DB_PATH is no database: every statement raises DatabaseError.
NotADatabase == dbFile = "corrupt"

Init ==
    /\ dbFile \in {"ok", "corrupt"}
    /\ store0 \in Range(Stores)
    /\ store = store0
    /\ pc = [p \in Procs |-> "idle"]
    /\ op = [p \in Procs |-> "list_tables"]
    /\ arg = [p \in Procs |-> <<>>]
    /\ conn = [p \in Procs |-> 0]
    /\ opened = [p \in Procs |-> 0]
    /\ work = [p \in Procs |-> NoWork]
    /\ pending = [p \in Procs |-> NoOutcome]
    /\ ret = [p \in Procs |-> NoOutcome]
    /\ log = [p \in Procs |-> <<>>]

\* The store file is removed, damaged or put back by its owner after the
\* server has started (main() has found it at DB_PATH) and before the calls
\* of the run: each call sees one state of the file from its existence
\* check to the close of its connection.
SetDbFile(v) ==
    /\ v # dbFile
    /\ \A p \in Procs : pc[p] = "idle"
    /\ dbFile' = v
    /\ UNCHANGED <<store, store0, pc, op, arg, conn, opened, work, pending, ret, log>>

\* A tool is called: the call runs to its first await.  query() validates
\* its text and returns early when the guard rejects it; get_connection()
\* raises FileNotFoundError when DB_PATH does not exist, and the raise is
\* outside every try of the four tools.
Call(p, o, a) ==
    /\ pc[p] = "idle"
    /\ op' = [op EXCEPT ![p] = o]
    /\ arg' = [arg EXCEPT ![p] = a]
    /\ log' = [log EXCEPT ![p] = <<>>]
    /\ opened' = [opened EXCEPT ![p] = 0]
    /\ work' = [work EXCEPT ![p] = NoWork]
    /\ pending' = [pending EXCEPT ![p] = NoOutcome]
    /\ LET guard == IF o = "query" THEN Validate(a) ELSE [allow |-> TRUE, doc |-> NoDoc]
       IN IF ~guard.allow
          THEN /\ pc' = [pc EXCEPT ![p] = "done"]
               /\ ret' = [ret EXCEPT ![p] = Returned(guard.doc)]
          ELSE IF ~path_exists
          THEN /\ pc' = [pc EXCEPT ![p] = "done"]
               /\ ret' = [ret EXCEPT ![p] = Raised("FileNotFoundError")]
          ELSE /\ pc' = [pc EXCEPT ![p] = "connect"]
               /\ ret' = [ret EXCEPT ![p] = NoOutcome]
    /\ UNCHANGED <<dbFile, store, store0, conn>>

\* conn = await aiosqlite.connect(DB_PATH)
get_connection(p) ==
    /\ pc[p] = "connect"
    /\ conn' = [conn EXCEPT ![p] = @ + 1]
    /\ opened' = [opened EXCEPT ![p] = @ + 1]
    /\ pc' = [pc EXCEPT ![p] = IF op[p] = "describe_table" THEN "exists" ELSE "execute"]
    /\ UNCHANGED <<dbFile, store, store0, op, arg, work, pending, ret, log>>

\* The body of a tool leaves its try with an outcome: finally runs next.
Leave(p, outcome) ==
    /\ pending' = [pending EXCEPT ![p] = outcome]
    /\ pc' = [pc EXCEPT ![p] = "close"]

list_tables(p) ==
    /\ pc[p] = "execute" /\ op[p] = "list_tables"
    /\ log' = [log EXCEPT ![p] = Append(@, Statement("select_table_names", <<>>))]
    /\ IF NotADatabase
       THEN Leave(p, Raised("DatabaseError"))
       ELSE Leave(p, Returned([tables |-> select_table_names(store)]))
    /\ UNCHANGED <<dbFile, store, store0, op, arg, conn, opened, work, ret>>

\* SELECT name, sql FROM sqlite_master ... ORDER BY name, as the dict
\* get_schema() builds from it, in insertion order.
select_schema(st) ==
    LET names == select_table_names(st)
    IN [i \in 1..Len(names) |->
          [name |-> names[i],
           sql |-> Schema(names[i]).sql]]

get_schema(p) ==
    /\ pc[p] = "execute" /\ op[p] = "get_schema"
    /\ log' = [log EXCEPT ![p] = Append(@, Statement("select_schema", <<>>))]
    /\ IF NotADatabase
       THEN Leave(p, Raised("DatabaseError"))
       ELSE Leave(p, Returned([schema |-> select_schema(store)]))
    /\ UNCHANGED <<dbFile, store, store0, op, arg, conn, opened, work, ret>>

NotFoundDoc(table_name) == ErrorDoc("Table '{table_name}' not found", table_name)

\* The column dict describe_table() builds of a table_info row.
ColumnDoc(row) ==
    [name |-> row.name, type |-> row.type, nullable |-> (row.notnull = 0),
     default |-> row.dflt_value, primary_key |-> (row.pk # 0)]

\* The foreign key dict it builds of a foreign_key_list row.
ForeignKeyDoc(row) ==
    [column |-> row.from, references_table |-> row.table, references_column |-> row.to]

\* The document describe_table() returns of what it has collected.
DescriptionDoc(table_name, w) ==
    [table |-> table_name, columns |-> w.columns,
     foreign_keys |-> w.foreign_keys, indexes |-> w.indexes]

\* One statement of describe_table(): the existence check, then the PRAGMAs
\* table_info, foreign_key_list and index_list with table_name put into
\* their text, then index_info for each index with its name put into the
\* text.  A statement that raises leaves through finally.
describe_table(p) ==
    /\ op[p] = "describe_table"
    /\ pc[p] \in {"exists", "table_info", "foreign_key_list", "index_list", "index_info"}
    /\ LET text == IF pc[p] = "index_info" THEN work[p].todo[1].name ELSE arg[p]
           r    == Pragma(store, pc[p], text)
       IN /\ log' = [log EXCEPT ![p] = Append(@, Statement(pc[p], text))]
          /\ IF NotADatabase
             THEN Leave(p, Raised("DatabaseError")) /\ UNCHANGED work
             ELSE IF pc[p] = "exists"
             THEN /\ IF select_table_exists(store, arg[p])
                     THEN /\ pc' = [pc EXCEPT ![p] = "table_info"]
                          /\ UNCHANGED pending
                     ELSE Leave(p, Returned(NotFoundDoc(arg[p])))
                  /\ UNCHANGED work
             ELSE IF ~r.ok
             THEN Leave(p, Raised("OperationalError")) /\ UNCHANGED work
             ELSE IF pc[p] = "table_info"
             THEN /\ work' = [work EXCEPT ![p].columns =
                                 [i \in 1..Len(r.rows) |-> ColumnDoc(r.rows[i])]]
                  /\ pc' = [pc EXCEPT ![p] = "foreign_key_list"]
                  /\ UNCHANGED pending
             ELSE IF pc[p] = "foreign_key_list"
             THEN /\ work' = [work EXCEPT ![p].foreign_keys =
                                 [i \in 1..Len(r.rows) |-> ForeignKeyDoc(r.rows[i])]]
                  /\ pc' = [pc EXCEPT ![p] = "index_list"]
                  /\ UNCHANGED pending
             ELSE IF pc[p] = "index_list"
             THEN /\ work' = [work EXCEPT ![p].todo = r.rows]
                  /\ IF r.rows = <<>>
                     THEN Leave(p, Returned(DescriptionDoc(arg[p], work[p])))
                     ELSE /\ pc' = [pc EXCEPT ![p] = "index_info"]
                          /\ UNCHANGED pending
             ELSE LET row  == work[p].todo[1]
                      done == [work[p] EXCEPT
                                 !.indexes = Append(@, [name |-> row.name,
                                                        unique |-> (row.unique # 0),
                                                        columns |-> r.rows]),
                                 !.todo = Tail(@)]
                  IN /\ work' = [work EXCEPT ![p] = done]
                     /\ IF done.todo = <<>>
                        THEN Leave(p, Returned(DescriptionDoc(arg[p], done)))
                        ELSE UNCHANGED <<pc, pending>>
    /\ UNCHANGED <<dbFile, store, store0, op, arg, conn, opened, ret>>

SqlErrorDoc(message) == ErrorDoc("SQL error: {str(e)}", <<message>>)

\* conn.execute(sql) in query(): every exception of the driver is caught and
\* returned as a document.
query(p) ==
    /\ pc[p] = "execute" /\ op[p] = "query"
    /\ LET text == ExecutedText(arg[p])
           r    == Execute(store, text)
       IN /\ log' = [log EXCEPT ![p] = Append(@, Statement("sql", text))]
          /\ IF NotADatabase
             THEN Leave(p, Returned(SqlErrorDoc("file is not a database")))
                  /\ UNCHANGED store
             ELSE IF ~r.ok
             THEN Leave(p, Returned(SqlErrorDoc("OperationalError")))
                  /\ UNCHANGED store
             ELSE /\ Leave(p, Returned([columns |-> r.columns, rows |-> r.rows,
                                        row_count |-> Len(r.rows)]))
                  /\ store' = r.store
    /\ UNCHANGED <<dbFile, store0, op, arg, conn, opened, work, ret>>

\* Mutation of Close: the connection is closed on the normal return only,
\* as without try/finally.
CloseOnReturnOnly(p) ==
    /\ pc[p] = "close"
    /\ conn' = [conn EXCEPT ![p] = IF pending[p].how = "returned" /\ @ > 0
                                   THEN @ - 1 ELSE @]
    /\ pc' = [pc EXCEPT ![p] = "done"]
    /\ ret' = [ret EXCEPT ![p] = pending[p]]
    /\ pending' = [pending EXCEPT ![p] = NoOutcome]
    /\ work' = [work EXCEPT ![p] = NoWork]
    /\ UNCHANGED <<dbFile, store, store0, op, arg, opened, log>>

\* finally: await conn.close(); then the call returns its document or the
\* exception goes on to the caller.
Close(p) ==
    /\ pc[p] = "close"
    /\ conn' = [conn EXCEPT ![p] = IF @ > 0 THEN @ - 1 ELSE @]
    /\ pc' = [pc EXCEPT ![p] = "done"]
    /\ ret' = [ret EXCEPT ![p] = pending[p]]
    /\ pending' = [pending EXCEPT ![p] = NoOutcome]
    /\ work' = [work EXCEPT ![p] = NoWork]
    /\ UNCHANGED <<dbFile, store, store0, op, arg, opened, log>>

Next ==
    \/ \E p \in Procs : \E o \in Ops : \E a \in Args(o) : Call(p, o, a)
    \/ \E p \in Procs : get_connection(p)
    \/ \E p \in Procs : list_tables(p)
    \/ \E p \in Procs : describe_table(p)
    \/ \E p \in Procs : get_schema(p)
    \/ \E p \in Procs : query(p)
    \/ \E p \in Procs : Close(p)
    \/ \E v \in {"ok", "missing", "corrupt"} : SetDbFile(v)

Spec == Init /\ [][Next]_vars

\* ------------------------------------------------- the guard specification

\* The fragments the query texts of the guard specification are made of.
Frags ==
    { <<"S","E","L","E","C","T">>, <<"s","e","l","e","c","t"," ">>,
      <<"W","i","t","h"," ">>, <<" ">>, <<"\n">>, <<"D","r","o","p">>,
      <<"u","p","d","a","t","e">>, <<"c","r","e","a","t","e","d","_","a","t">>,
      <<"x">>, <<"_">>, <<";">> }

\* The texts made of at most n fragments.
RECURSIVE Texts(_)
Texts(n) ==
    IF n = 0 THEN {<<>>}
    ELSE Texts(n - 1) \cup {s \o f : s \in Texts(n - 1), f \in Frags}

GuardInputs == Texts(MaxFrags)

\* One query() call on each text of GuardInputs, the store present or not.
GuardInit ==
    /\ dbFile \in {"ok", "missing"}
    /\ store0 = Stores[2]
    /\ store = store0
    /\ pc = [p \in Procs |-> "idle"]
    /\ op = [p \in Procs |-> "query"]
    /\ arg \in {[p \in Procs |-> IF p = 1 THEN s ELSE <<>>] : s \in GuardInputs}
    /\ conn = [p \in Procs |-> 0]
    /\ opened = [p \in Procs |-> 0]
    /\ work = [p \in Procs |-> NoWork]
    /\ pending = [p \in Procs |-> NoOutcome]
    /\ ret = [p \in Procs |-> NoOutcome]
    /\ log = [p \in Procs |-> <<>>]

GuardCall == Call(1, "query", arg[1])

GuardNext ==
    \/ GuardCall
    \/ get_connection(1)
    \/ query(1)
    \/ Close(1)

GuardSpec == GuardInit /\ [][GuardNext]_vars

\* ------------------------------------------------------------------ claims

\* The statements of a log that are a caller's sql.
SqlTexts(l) == {l[i].text : i \in {j \in 1..Len(l) : l[j].stmt = "sql"}}

IsErrorDoc(doc) == "error" \in DOMAIN doc

\* A text without its leading whitespace.
RECURSIVE LeadingTrimmed(_)
LeadingTrimmed(s) ==
    IF s # <<>> /\ IsSpace(s[1]) THEN LeadingTrimmed(Tail(s)) ELSE s

\* Each character with its letter case removed.
Folded ==
    [c \in Range(Ascii) |->
        IF c \in Range(UpperLetters)
        THEN LowerLetters[CHOOSE k \in 1..26 : UpperLetters[k] = c]
        ELSE c]

Fold(s) == [i \in 1..Len(s) |-> Folded[s[i]]]

\* The text begins with word, leading whitespace and letter case ignored.
BeginsWith(s, word) ==
    LET t == Fold(LeadingTrimmed(s))
    IN Len(t) >= Len(word) /\ SubSeq(t, 1, Len(word)) = Fold(word)

BeginsWithSelectOrWith(s) == BeginsWith(s, KW_SELECT) \/ BeginsWith(s, KW_WITH)

\* The characters of an identifier.
IdentifierChars ==
    Range(LowerLetters) \cup Range(UpperLetters) \cup Range(Digits) \cup {"_"}

\* word occurs in s, in any letter case, with no identifier character next
\* to it on either side.
HasWholeWord(s, word) ==
    LET t == Fold(s)
        w == Fold(word)
    IN \E i \in 1..(Len(t) - Len(w) + 1) :
          LET j == i + Len(w) - 1
          IN /\ SubSeq(t, i, j) = w
             /\ (i = 1 \/ t[i-1] \notin IdentifierChars)
             /\ (j = Len(t) \/ t[j+1] \notin IdentifierChars)

\* word occurs in s, in any letter case, anywhere.
HasSubstring(s, word) ==
    LET t == Fold(s)
        w == Fold(word)
    IN \E i \in 1..(Len(t) - Len(w) + 1) : SubSeq(t, i, i + Len(w) - 1) = w

DenyListed == Range(forbidden_keywords)

HasDenyListedWord(s) == \E k \in DenyListed : HasWholeWord(s, k)

\* C1: no call changes the store: after any calls of the four tools, in any
\* interleaving, the tables and rows of the store are those before the first
\* call, and no statement the driver was handed for a query is a write.
C1_StoreNeverMutated ==
    /\ store = store0
    /\ \A p \in Procs : \A t \in SqlTexts(log[p]) : ~IsWrite(t)

\* C1's case: query("DROP TABLE users") has returned an error document and
\* a list_tables call has then listed users.
C1_Witness ==
    \E p, q \in Procs :
        /\ op[p] = "query" /\ arg[p] = Q_drop /\ pc[p] = "done"
        /\ ret[p].how = "returned" /\ IsErrorDoc(ret[p].doc)
        /\ op[q] = "list_tables" /\ pc[q] = "done" /\ ret[q].how = "returned"
        /\ N_users \in Range(ret[q].doc.tables)

\* C2: every call that has finished has returned a document, the success
\* shape or one with the key "error"; none has let an exception escape.
C2_NoExceptionEscapes ==
    \A p \in Procs :
        pc[p] = "done" =>
            /\ ret[p].how = "returned"
            /\ \/ IsErrorDoc(ret[p].doc)
               \/ DOMAIN ret[p].doc \in
                    { {"tables"}, {"schema"}, {"columns", "rows", "row_count"},
                      {"table", "columns", "foreign_keys", "indexes"} }

\* C3: a call opens at most one connection and holds none once it has
\* finished, whatever its exit; a connection is open only within the call
\* that opened it, so none is open when all calls have finished.
C3_ConnectionsClosed ==
    \A p \in Procs :
        /\ opened[p] <= 1
        /\ conn[p] <= opened[p]
        /\ pc[p] \in {"idle", "connect", "done"} => conn[p] = 0

\* C3's case: all calls have finished, one by an exception that went on to
\* the caller after its connection was opened, one by the table-not-found
\* early return.
C3_Witness ==
    /\ \A p \in Procs : pc[p] = "done"
    /\ \E p \in Procs : ret[p].how = "raised" /\ opened[p] = 1
    /\ \E p \in Procs : ret[p] = Returned(NotFoundDoc(N_nosuch)) /\ opened[p] = 1

\* C4: a query whose text does not begin with SELECT or WITH (leading
\* whitespace and letter case ignored) returns the rejection document and
\* its text never reaches the driver.
C4_NonSelectRejected ==
    \A p \in Procs :
        (op[p] = "query" /\ pc[p] # "idle" /\ ~BeginsWithSelectOrWith(arg[p])) =>
            /\ pc[p] = "done"
            /\ ret[p] = Returned(NotSelectDoc)
            /\ log[p] = <<>>
            /\ opened[p] = 0

\* C4's case: "Drop x" has been rejected.
C4_Witness ==
    /\ pc[1] = "done" /\ op[1] = "query"
    /\ arg[1] = <<"D","r","o","p"," ","x">>
    /\ ret[1] = Returned(NotSelectDoc)

\* C5: a query whose text holds a deny-listed keyword as a whole word, in
\* any letter case, returns an error document and its text never reaches
\* the driver; when the text begins with SELECT or WITH the error names a
\* deny-listed keyword that is a whole word of the text.
C5_DenyListedRejected ==
    \A p \in Procs :
        (op[p] = "query" /\ pc[p] # "idle" /\ HasDenyListedWord(arg[p])) =>
            /\ pc[p] = "done"
            /\ ret[p].how = "returned" /\ IsErrorDoc(ret[p].doc)
            /\ log[p] = <<>>
            /\ opened[p] = 0
            /\ BeginsWithSelectOrWith(arg[p]) =>
                  \E k \in DenyListed :
                      HasWholeWord(arg[p], k) /\ ret[p].doc = ForbiddenDoc(k)

\* C5's case: "select update" has been rejected for UPDATE.
C5_Witness ==
    /\ pc[1] = "done" /\ op[1] = "query"
    /\ arg[1] = <<"s","e","l","e","c","t"," ","u","p","d","a","t","e">>
    /\ ret[1] = Returned(ForbiddenDoc(<<"U","P","D","A","T","E">>))

\* C6: a query whose text begins with SELECT or WITH and holds deny-listed
\* keywords only inside longer identifiers, never as a whole word, is
\* allowed by the guard: the call goes on to get_connection(), it returns
\* neither rejection document, and the one statement the driver is handed
\* on the connection it opens is the query.
C6_SubstringAllowed ==
    \A p \in Procs :
        (op[p] = "query" /\ pc[p] # "idle"
           /\ BeginsWithSelectOrWith(arg[p]) /\ ~HasDenyListedWord(arg[p])) =>
            /\ ret[p] # Returned(NotSelectDoc)
            /\ \A k \in DenyListed : ret[p] # Returned(ForbiddenDoc(k))
            /\ (pc[p] = "done" /\ path_exists) => opened[p] = 1
            /\ (pc[p] \in {"close", "done"} /\ opened[p] = 1) =>
                  log[p] = <<Statement("sql", arg[p])>>

\* C6's case: "select created_at", which holds CREATE inside created_at,
\* has been handed to the driver.
C6_Witness ==
    /\ pc[1] = "done" /\ op[1] = "query"
    /\ arg[1] = <<"s","e","l","e","c","t"," ","c","r","e","a","t","e","d","_","a","t">>
    /\ HasSubstring(arg[1], <<"C","R","E","A","T","E">>)
    /\ log[1] = <<Statement("sql", arg[1])>>

\* C7: describe_table with a name that is no table of the store's catalog
\* returns exactly the not-found document, and the existence check is the
\* only statement the driver is handed before the connection is closed.
C7_NotFoundShortCircuits ==
    \A p \in Procs :
        (op[p] = "describe_table" /\ dbFile = "ok" /\ arg[p] \notin DOMAIN store) =>
            /\ pc[p] \in {"idle", "connect", "exists", "close", "done"}
            /\ pc[p] \in {"close", "done"} =>
                  log[p] = <<Statement("exists", arg[p])>>
            /\ pc[p] = "close" => pending[p] = Returned(NotFoundDoc(arg[p]))
            /\ pc[p] = "done" =>
                  ret[p] = Returned(NotFoundDoc(arg[p])) /\ conn[p] = 0

\* C7's case: describe_table("nosuch") has returned on a store with tables.
C7_Witness ==
    \E p \in Procs :
        /\ op[p] = "describe_table" /\ arg[p] = N_nosuch /\ pc[p] = "done"
        /\ store # Stores[1]
        /\ ret[p] = Returned(NotFoundDoc(N_nosuch))
        /\ log[p] = <<Statement("exists", N_nosuch)>>

\* C8: the text the driver is handed for a query is the caller's text,
\* character for character.
C8_OriginalTextExecuted ==
    \A p \in Procs :
        op[p] = "query" => \A i \in 1..Len(log[p]) : log[p][i] = Statement("sql", arg[p])

\* C8's case: " select x", with leading whitespace and lower case letters,
\* has been handed to the driver.
C8_Witness ==
    /\ pc[1] = "done" /\ op[1] = "query"
    /\ arg[1] = <<" ","s","e","l","e","c","t"," ","x">>
    /\ arg[1] # sql_upper(arg[1])
    /\ log[1] = <<Statement("sql", arg[1])>>

\* A name of the store's internal tables: it begins with sqlite_ .
IsSystemName(name) ==
    /\ Len(name) >= 7
    /\ Fold(SubSeq(name, 1, 7)) = <<"s","q","l","i","t","e","_">>

UserTables(st) == {n \in DOMAIN st : ~IsSystemName(n)}

\* A sequence of names in strictly ascending order.
IsAscending(names) ==
    \A i \in 1..(Len(names) - 1) : StrLess(names[i], names[i+1])

\* C9: list_tables on a readable store returns the names of exactly its
\* user tables (the tables that are not internal ones), each once, in
\* ascending order; on a store without user tables it returns no names.
C9_ListsExactlyUserTables ==
    \A p \in Procs :
        (op[p] = "list_tables" /\ pc[p] = "done" /\ dbFile = "ok") =>
            /\ ret[p].how = "returned"
            /\ DOMAIN ret[p].doc = {"tables"}
            /\ Range(ret[p].doc.tables) = UserTables(store)
            /\ IsAscending(ret[p].doc.tables)

\* C10: describe_table with a name list_tables returns for the same store
\* returns the description of that table, whatever the name's characters.
C10_ListedNamesDescribe ==
    \A p \in Procs :
        (op[p] = "describe_table" /\ pc[p] = "done" /\ dbFile = "ok"
           /\ arg[p] \in Range(select_table_names(store))) =>
            /\ ret[p].how = "returned"
            /\ DOMAIN ret[p].doc = {"table", "columns", "foreign_keys", "indexes"}
            /\ ret[p].doc.table = arg[p]

=============================================================================
